---- MODULE Spec2Model ----
(***************************************************************************)
(* Liveness pipeline of the identity-verification wizard.                  *)
(*                                                                         *)
(*   - the evaluator: detectLiveness / resetLivenessDetection, in the      *)
(*     three versions the repository holds (MediaPipe, face-api, BlazeFace)*)
(*   - the gesture waits: waitForBlink and waitForHeadTurn                 *)
(*   - the camera module (lib/camera, three versions) and the face-api     *)
(*     model loader                                                        *)
(*   - the step-by-step orchestrator: startVerification and                *)
(*     performLivenessCheck of components/biometric-verification.tsx       *)
(*                                                                         *)
(* Scalars are integers: an eye aspect ratio is in hundredths (0.23 is 23),*)
(* a normalised nose offset in hundredths (0.2 is 20), a face-api yaw in   *)
(* degrees, a time in milliseconds.                                        *)
(***************************************************************************)
EXTENDS Integers, Sequences, FiniteSets, TLC

(* ------------------------------------------------------------------ *)
(* Bounds of the model                                                  *)
(* ------------------------------------------------------------------ *)

\* closed-eye frames the subject produces between two resets
MaxCloses == 2
\* changes of head yaw the subject makes between two resets
MaxTurns == 1
\* frames the BlazeFace evaluator is fed between two resets (its
\* eye-aspect-ratio history has no eviction)
MaxEarLen == 32
\* samples of one wait that the observer records
MaxTrace == 7
\* clicks on Start Verification
MaxRuns == 2
\* firings of the detection interval that find the video element
MaxTicks == 7
\* detectLiveness calls of the detection interval awaiting their answer
MaxInflight == 2
\* verification links generated
MaxSessions == 2
\* the server's clock, in units of 12 hours
MaxNow == 3
\* upload-id requests whose document is being processed at one time
MaxUploads == 1
\* loads of the verification page
MaxLoads == 2
\* link-access requests of the page that have not been settled
MaxAccess == 2

(* ------------------------------------------------------------------ *)
(* Program constants                                                    *)
(* ------------------------------------------------------------------ *)

EYE_AR_THRESHOLD == 23
HEAD_ANGLE_THRESHOLD == 20
MAX_FRAME_RATE == 30
\* eyeAspectRatios.length > 5 (MediaPipe), > 10 (face-api)
EarCapMediaPipe == 5
EarCapFaceApi == 10
\* headPositions.length > 30
HeadCap == 30
\* headPositions.length > 5 before head movement is looked at (MediaPipe)
HeadMinMediaPipe == 5
\* deltaYaw > 0.2, in hundredths
HeadDeltaMediaPipe == 20
\* blinkCounter >= 2
RequiredBlinks == 2
\* waitForBlink: ear < 0.22, blinkCount = 2, timeout = 8000, setTimeout(r, 100)
BLINK_EAR_THRESHOLD == 22
BLINK_COUNT == 2
WAIT_TIMEOUT == 8000
POLL_SLEEP == 100
\* waitForHeadTurn: offset < -10, offset > 10
HEAD_OFFSET_THRESHOLD == 10

(* ------------------------------------------------------------------ *)
(* Inputs                                                               *)
(* ------------------------------------------------------------------ *)

Detectors == {"mediapipe", "faceapi", "blazeface"}
\* eye aspect ratios of a frame: eyes closed, eyes open
EARs == {18, 30}
\* head yaw of a frame: centred, turned
Yaws == {0, 30}
Pitches == {0}
\* milliseconds since the last processed frame, as shouldProcessFrame sees it
Elapsed == {10, 500}

\* what one detectLiveness call meets: the video element's state, the model
\* load, the frame-rate gate and the extractor's answer
Frames ==
  [kind : {"notready", "loadfail", "noface", "throw"}, ear : {0}, yaw : {0}, pitch : {0}, since : {500}]
    \cup [kind : {"face"}, ear : EARs, yaw : Yaws, pitch : Pitches, since : Elapsed]

\* what one poll of a wait meets: the extractor throws, finds no face, or
\* finds one whose measure (average EAR in hundredths, nose offset in
\* pixels) is v
BlinkEARs == {18, 22, 30}
HeadOffsets == {-25, 0, 10, 25}
BlinkSamples == [kind : {"throw", "noface"}, v : {0}] \cup [kind : {"face"}, v : BlinkEARs]
HeadSamples == [kind : {"throw", "noface"}, v : {0}] \cup [kind : {"face"}, v : HeadOffsets]
\* milliseconds one detectSingleFace call takes
DetectMs == {900, 3900}

CameraLibs == {"camera.ts", "part_007", "part_008"}
\* how navigator.mediaDevices.getUserMedia settles
UserMedia == {"ok", "NotAllowedError", "NotFoundError", "NotReadableError"}
\* what canvas.toDataURL gives captureFrame
Captures == {"image", "data:,", "nocontext"}

VARIABLES
  detector,         \* which version of lib/face-detection the bundle holds
  eyeAspectRatios,  \* module state: recent eye aspect ratios
  blinkCounter,     \* module state: blinks counted
  headPositions,    \* module state: recent {yaw, pitch}
  result,           \* what the last detectLiveness call returned
  closes,           \* closed-eye frames fed since the last reset
  turns,            \* yaw changes fed since the last reset
  wait,             \* the locals of the running waitForBlink / waitForHeadTurn
  caller,           \* what the caller of a wait got back
  observe,          \* whether the observer records samples
  seen,             \* the samples the running wait has evaluated (observer)
  cameraLib,        \* which version of lib/camera the bundle holds
  currentStream,    \* lib/camera: the stream startCamera registered, 0 for null
  streams,          \* per stream getUserMedia has handed out: stop() calls on its tracks
  modelsLoaded,     \* lib/face-api-loader
  isLoading,        \* lib/face-api-loader
  loadPromise,      \* lib/face-api-loader: "null", "pending", "fulfilled", "rejected"
  mounted,          \* the component is mounted (videoRef.current is the video element)
  cameraStarted,    \* component state
  isProcessing,     \* component state
  currentInstruction, \* component state
  completedSteps,   \* component state
  pc,               \* where the startVerification call stands
  runs,             \* clicks on Start Verification so far
  outcome,          \* how the last run ended
  toast,            \* description of the last destructive toast
  mutation,         \* verifyBiometricMutation: "idle", "pending" or how it settled
  payload,          \* what was handed to verifyBiometricMutation.mutate
  faceImageData,    \* performLivenessCheck local
  livenessData,     \* performLivenessCheck local
  video,            \* the argument of the running wait: "element" or "null"
  variant,          \* which interval-driven component is mounted: "A" or "B"
  ivCalls,          \* its startVerification calls: where each stands, what it closed over
  timers,           \* the intervals setInterval created
  detectionInterval, \* detectionInterval.current: an index into timers, 0 for undefined
  livenessStatus,   \* component state
  inflight,         \* interval callbacks awaiting detectLiveness, by timer
  ticks,            \* interval firings so far
  submissions,      \* mutateAsync calls so far
  sessions,         \* server: MemStorage.verificationSessions, by session id
  now,              \* server: the clock
  uploads,          \* server: upload-id requests whose document is being processed
  response,         \* server: the last response sent
  pageLoads,        \* page: loads of the verification page so far, 0 when not open
  paramsLinkId,     \* page: params?.linkId of the URL, 0 for undefined
  localStorage,     \* page: the stored session id (0 for none) and step
  pageSessionId,    \* page state sessionId, 0 for null
  currentStep,      \* page state
  isAccessingLink,  \* page state
  isRestoringSession, \* page state
  restoreFetch,     \* page: the fetch of the restore effect, "none" or "pending"
  accessRequests,   \* page: the requests accessLinkMutation has sent
  effectPending     \* page: a dependency of the link-access effect has changed

evalVars == <<detector, eyeAspectRatios, blinkCounter, headPositions, result, closes, turns>>

waitVars == <<wait, caller, observe, seen>>

camVars == <<cameraLib, currentStream, streams>>

loaderVars == <<modelsLoaded, isLoading, loadPromise>>

compVars == <<mounted, cameraStarted, isProcessing, currentInstruction, completedSteps>>

runVars ==
  <<pc, runs, outcome, toast, mutation, payload, faceImageData, livenessData, video>>

ivVars ==
  <<variant, ivCalls, timers, detectionInterval, livenessStatus, inflight, ticks,
    submissions>>

srvVars == <<sessions, now, uploads, response>>

pageVars ==
  <<pageLoads, paramsLinkId, localStorage, pageSessionId, currentStep, isAccessingLink,
    isRestoringSession, restoreFetch, accessRequests, effectPending>>

appVars == <<camVars, loaderVars, compVars, runVars, ivVars, srvVars, pageVars>>

vars == <<evalVars, waitVars, appVars>>

(* ------------------------------------------------------------------ *)
(* The evaluator                                                        *)
(* ------------------------------------------------------------------ *)

LivenessData(face, blink, head) ==
  [facePresent |-> face, blinkDetected |-> blink, headMovement |-> head]

getDefaultLivenessData == LivenessData(FALSE, FALSE, FALSE)

RECURSIVE SumSeq(_)
SumSeq(s) == IF s = <<>> THEN 0 ELSE Head(s) + SumSeq(Tail(s))

Abs(x) == IF x < 0 THEN -x ELSE x

\* timeSinceLastFrame >= 1000 / MAX_FRAME_RATE
shouldProcessFrame(since) == since * MAX_FRAME_RATE >= 1000

\* push, then shift while over the capacity
PushCapped(s, x, cap) ==
  LET t == Append(s, x) IN IF Len(t) > cap THEN Tail(t) ELSE t

\* first-versus-last delta of the head history
HeadDelta(h, threshold) ==
  LET first == h[1]
      last == h[Len(h)]
  IN Abs(last.yaw - first.yaw) > threshold \/ Abs(last.pitch - first.pitch) > threshold

\* lib/face-detection.ts (MediaPipe face mesh)
MediaPipeBlink(ears, ear) ==
  \* ear < avgEAR * 0.7, avgEAR = sum / length
  ear * Len(ears) * 10 < SumSeq(ears) * 7

MediaPipeEars(f) == PushCapped(eyeAspectRatios, f.ear, EarCapMediaPipe)

MediaPipeBlinks(f) ==
  IF Len(eyeAspectRatios) + 1 > EarCapMediaPipe /\ MediaPipeBlink(MediaPipeEars(f), f.ear)
  THEN blinkCounter + 1 ELSE blinkCounter

MediaPipeHeads(f) == PushCapped(headPositions, [yaw |-> f.yaw, pitch |-> f.pitch], HeadCap)

MediaPipeHeadMovement(h) ==
  Len(h) > HeadMinMediaPipe /\ HeadDelta(h, HeadDeltaMediaPipe)

MediaPipeProcessed(f) == f.kind = "face" /\ shouldProcessFrame(f.since)

DetectMediaPipe(f) ==
  IF MediaPipeProcessed(f)
  THEN /\ eyeAspectRatios' = MediaPipeEars(f)
       /\ blinkCounter' = MediaPipeBlinks(f)
       /\ headPositions' = MediaPipeHeads(f)
       /\ result' = LivenessData(TRUE, blinkCounter' > 0, MediaPipeHeadMovement(headPositions'))
  ELSE /\ UNCHANGED <<eyeAspectRatios, blinkCounter, headPositions>>
       /\ result' = getDefaultLivenessData

\* the face-api version
FaceApiHeadMovement(h) == Len(h) > 1 /\ HeadDelta(h, HEAD_ANGLE_THRESHOLD)

FaceApiBlinks(f) == IF f.ear < EYE_AR_THRESHOLD THEN blinkCounter + 1 ELSE blinkCounter

DetectFaceApi(f) ==
  IF f.kind = "face"
  THEN /\ eyeAspectRatios' = PushCapped(eyeAspectRatios, f.ear, EarCapFaceApi)
       /\ blinkCounter' = FaceApiBlinks(f)
       /\ headPositions' = PushCapped(headPositions, [yaw |-> f.yaw, pitch |-> f.pitch], HeadCap)
       /\ result' = LivenessData(TRUE, blinkCounter' >= RequiredBlinks, FaceApiHeadMovement(headPositions'))
  ELSE /\ UNCHANGED <<eyeAspectRatios, blinkCounter, headPositions>>
       /\ result' = getDefaultLivenessData

\* the BlazeFace version
BlazeFaceEarlyExit ==
  blinkCounter >= RequiredBlinks /\ Len(headPositions) > 1
    /\ HeadDelta(headPositions, HEAD_ANGLE_THRESHOLD)

BlazeFaceEars(f) == Append(eyeAspectRatios, f.ear)

DetectBlazeFace(f) ==
  IF BlazeFaceEarlyExit
  THEN /\ UNCHANGED <<eyeAspectRatios, blinkCounter, headPositions>>
       /\ result' = LivenessData(TRUE, TRUE, TRUE)
  ELSE IF f.kind = "face" /\ shouldProcessFrame(f.since)
  THEN /\ eyeAspectRatios' = BlazeFaceEars(f)
       /\ blinkCounter' = FaceApiBlinks(f)
       \* const pitch = 0; const yaw = 0
       /\ headPositions' = PushCapped(headPositions, [yaw |-> 0, pitch |-> 0], HeadCap)
       /\ result' = LivenessData(TRUE, blinkCounter' >= RequiredBlinks, FALSE)
  ELSE /\ UNCHANGED <<eyeAspectRatios, blinkCounter, headPositions>>
       /\ result' = getDefaultLivenessData

\* the frames a version can meet, within the bounds
IsClose(f) == f.kind = "face" /\ f.ear < EYE_AR_THRESHOLD

IsTurn(f) ==
  /\ f.kind = "face"
  /\ headPositions # <<>>
  /\ headPositions[Len(headPositions)].yaw # f.yaw

FrameAllowed(f) ==
  /\ IsClose(f) => closes < MaxCloses
  /\ IsTurn(f) => turns < MaxTurns
  /\ detector = "faceapi" => f.kind \in {"noface", "throw", "face"} /\ f.since = 500
  /\ detector = "blazeface" =>
       /\ f.kind # "notready"
       /\ f.kind = "face" => f.yaw = 0 /\ Len(eyeAspectRatios) < MaxEarLen

Detect(f) ==
  /\ FrameAllowed(f)
  /\ CASE detector = "mediapipe" -> DetectMediaPipe(f)
       [] detector = "faceapi" -> DetectFaceApi(f)
       [] detector = "blazeface" -> DetectBlazeFace(f)
  /\ closes' = IF IsClose(f) /\ eyeAspectRatios' # eyeAspectRatios THEN closes + 1 ELSE closes
  /\ turns' = IF IsTurn(f) /\ headPositions' # headPositions THEN turns + 1 ELSE turns
  /\ UNCHANGED detector

detectLiveness(f) == Detect(f) /\ UNCHANGED <<waitVars, appVars>>

DetectLiveness == \E f \in Frames : detectLiveness(f)

\* result is what detectLiveness last returned since the reset: the reset
\* starts a run in which no call has reported yet
\* a reset that forgets the histories and keeps the blink count
resetKeepsBlinkCounter ==
  /\ eyeAspectRatios' = <<>>
  /\ UNCHANGED blinkCounter
  /\ headPositions' = <<>>
  /\ result' = getDefaultLivenessData
  /\ closes' = 0
  /\ turns' = 0
  /\ UNCHANGED detector

resetLivenessDetection ==
  /\ eyeAspectRatios' = <<>>
  /\ blinkCounter' = 0
  /\ headPositions' = <<>>
  /\ result' = getDefaultLivenessData
  /\ closes' = 0
  /\ turns' = 0
  /\ UNCHANGED detector

ResetLivenessDetection == resetLivenessDetection /\ UNCHANGED <<waitVars, appVars>>

EvalInit(d) ==
  /\ detector = d
  /\ eyeAspectRatios = <<>>
  /\ blinkCounter = 0
  /\ headPositions = <<>>
  /\ result = getDefaultLivenessData
  /\ closes = 0
  /\ turns = 0

EvalNext == DetectLiveness \/ ResetLivenessDetection

(* ------------------------------------------------------------------ *)
(* waitForBlink and waitForHeadTurn                                     *)
(* ------------------------------------------------------------------ *)

\* no wait is running
WaitIdle ==
  [fn |-> "none", pc |-> "idle", elapsed |-> 0, blinks |-> 0, lastClosed |-> FALSE,
   left |-> FALSE, right |-> FALSE]

\* a loop condition without the timeout
BlinkLoopCondNoTimeout(w) == w.blinks < BLINK_COUNT

\* while (Date.now() - start < timeout && blinks < blinkCount)
BlinkLoopCond(w) == w.elapsed < WAIT_TIMEOUT /\ w.blinks < BLINK_COUNT

\* while (Date.now() - start < timeout && (!left || !right))
HeadLoopCond(w) == w.elapsed < WAIT_TIMEOUT /\ (~w.left \/ ~w.right)

LoopCond(w) == IF w.fn = "blink" THEN BlinkLoopCond(w) ELSE HeadLoopCond(w)

\* return blinks >= blinkCount; return left && right
WaitReturnValue(w) ==
  IF w.fn = "blink" THEN w.blinks >= BLINK_COUNT ELSE w.left /\ w.right

\* the entry of a wait up to its first await: the locals, the first test
\* of the loop condition, the first extractor call
WaitEntered(fn) ==
  LET w == [WaitIdle EXCEPT !.fn = fn]
  IN IF LoopCond(w) THEN [w EXCEPT !.pc = "detect"] ELSE [w EXCEPT !.pc = "returned"]

\* a body that counts every closed-eye frame (no edge detection)
BlinkBodyEveryFrame(w, s) ==
  IF s.kind # "face" THEN w
  ELSE IF s.v < BLINK_EAR_THRESHOLD
  THEN [w EXCEPT !.blinks = w.blinks + 1, !.lastClosed = TRUE]
  ELSE [w EXCEPT !.lastClosed = FALSE]

\* the body of waitForBlink's loop on one extractor answer
BlinkBody(w, s) ==
  IF s.kind # "face" THEN w
  ELSE IF s.v < BLINK_EAR_THRESHOLD
  THEN IF ~w.lastClosed
       THEN [w EXCEPT !.blinks = w.blinks + 1, !.lastClosed = TRUE]
       ELSE w
  ELSE [w EXCEPT !.lastClosed = FALSE]

\* a body that takes an excursion to either side for both
HeadBodyEitherSide(w, s) ==
  IF s.kind # "face" THEN w
  ELSE [w EXCEPT !.left = w.left \/ s.v < -HEAD_OFFSET_THRESHOLD \/ s.v > HEAD_OFFSET_THRESHOLD,
                 !.right = w.right \/ s.v < -HEAD_OFFSET_THRESHOLD \/ s.v > HEAD_OFFSET_THRESHOLD]

\* the body of waitForHeadTurn's loop on one extractor answer
HeadBody(w, s) ==
  IF s.kind # "face" THEN w
  ELSE [w EXCEPT !.left = w.left \/ s.v < -HEAD_OFFSET_THRESHOLD,
                 !.right = w.right \/ s.v > HEAD_OFFSET_THRESHOLD]

WaitBody(w, s) == IF w.fn = "blink" THEN BlinkBody(w, s) ELSE HeadBody(w, s)

Samples(fn) == IF fn = "blink" THEN BlinkSamples ELSE HeadSamples

\* the extractor answers after d ms: an exception leaves the wait (neither
\* loop catches), any other answer goes through the body and then sleeps
WaitAnswered(w, s, d) ==
  LET t == [w EXCEPT !.elapsed = w.elapsed + d]
  IN IF s.kind = "throw" THEN [t EXCEPT !.pc = "threw"]
     ELSE [WaitBody(t, s) EXCEPT !.pc = "sleep"]

\* the sleep ends: the loop condition is tested again and either the
\* extractor is called or the wait returns
WaitWoken(w) ==
  LET t == [w EXCEPT !.elapsed = w.elapsed + POLL_SLEEP]
  IN IF LoopCond(t) THEN [t EXCEPT !.pc = "detect"] ELSE [t EXCEPT !.pc = "returned"]

Observed(s) ==
  IF observe /\ Len(seen) < MaxTrace THEN Append(seen, s) ELSE seen

\* a wait called on its own
CallWait ==
  /\ wait.pc \in {"idle", "returned", "threw"}
  /\ \E fn \in {"blink", "head"} : wait' = WaitEntered(fn)
  /\ caller' = "waiting"
  /\ seen' = <<>>
  /\ UNCHANGED <<observe, evalVars, appVars>>

WaitDetected ==
  /\ wait.pc = "detect"
  /\ \E s \in Samples(wait.fn), d \in DetectMs :
       /\ wait' = WaitAnswered(wait, s, d)
       /\ seen' = Observed(s)
  /\ caller' = IF wait'.pc = "threw" THEN "exception" ELSE caller
  /\ UNCHANGED <<observe, evalVars, appVars>>

WaitTimer ==
  /\ wait.pc = "sleep"
  /\ wait' = WaitWoken(wait)
  /\ caller' = IF wait'.pc # "returned" THEN caller
                ELSE IF WaitReturnValue(wait') THEN "true" ELSE "false"
  /\ UNCHANGED <<observe, seen, evalVars, appVars>>

WaitInit(obs) ==
  /\ wait = WaitIdle
  /\ caller = "none"
  /\ observe = obs
  /\ seen = <<>>

WaitNext == CallWait \/ WaitDetected \/ WaitTimer

(* ------------------------------------------------------------------ *)
(* lib/camera                                                           *)
(* ------------------------------------------------------------------ *)

Error(message) == [isError |-> TRUE, name |-> "Error", message |-> message]

\* the DOM Event the video element's onerror hands to reject
ErrorEvent == [isError |-> FALSE, name |-> "Event", message |-> ""]

\* stopCamera(): stop the tracks of the registered stream and forget it
stopCamera(cs, st) ==
  IF cs # 0
  THEN [currentStream |-> 0, streams |-> [st EXCEPT ![cs] = @ + 1]]
  ELSE [currentStream |-> cs, streams |-> st]

\* startCamera before its first await: camera.ts and part_007 stop the
\* registered stream first, part_008 does not
startCameraEntry(lib, cs, st) ==
  IF lib = "part_008" THEN [currentStream |-> cs, streams |-> st] ELSE stopCamera(cs, st)

\* what startCamera throws when getUserMedia rejects with a DOMException
\* of name n
startCameraError(lib, n) ==
  CASE lib = "camera.ts" ->
         Error(CASE n = "NotAllowedError" ->
                      "Camera access was denied. Please grant camera permissions to continue."
                 [] n = "NotFoundError" ->
                      "No camera found. Please connect a camera and try again."
                 [] n = "NotReadableError" ->
                      "Camera is already in use by another application."
                 [] OTHER -> "Failed to access camera")
    [] lib = "part_007" ->
         Error("Could not access the camera. Please ensure you have granted camera permissions.")
    [] OTHER ->
         Error("Failed to access camera. Please ensure camera permissions are granted.")

\* how the promise startCamera returns settles once the stream is attached:
\* camera.ts removes its handlers and its timeout in a microtask, so its
\* promise never settles; part_007 resolves when play() does and hangs
\* when play() rejects; part_008 resolves on loadedmetadata and rejects
\* with the error event
StreamEvents(lib) ==
  CASE lib = "camera.ts" -> {}
    [] lib = "part_007" -> {"played", "playfailed"}
    [] OTHER -> {"loadedmetadata", "error"}

(* ------------------------------------------------------------------ *)
(* lib/face-api-loader                                                  *)
(* ------------------------------------------------------------------ *)

\* loadFaceApiModels() up to its return
loadFaceApiModels(loaded, loading, promise) ==
  IF loaded THEN [isLoading |-> loading, loadPromise |-> promise]
  ELSE IF loading /\ promise # "null" THEN [isLoading |-> loading, loadPromise |-> promise]
  ELSE [isLoading |-> TRUE, loadPromise |-> "pending"]

(* ------------------------------------------------------------------ *)
(* the request schemas (part_000) and the bodies the clients send      *)
(* ------------------------------------------------------------------ *)

\* a response of the server: the route, the id the request named, the
\* HTTP status
Response(route, id, status) == [route |-> route, id |-> id, status |-> status]

\* the livenessData objects a biometric request can carry: what the
\* step-by-step client sends (the evaluator's LivenessData), what the
\* interval-driven client sends, and objects with a brightness
LivenessBodies ==
  [blinkDetected : BOOLEAN, headMovement : {TRUE}, facePresent : {TRUE},
   faceAngle : {[pitch |-> 0, roll |-> 0, yaw |-> 0]}, eyeAspectRatio : {30},
   timestamp : {1}]
  \cup [blinkDetected : {TRUE}, headMovement : {TRUE}, timestamp : {1}]
  \cup [blinkDetected : {TRUE}, headMovement : BOOLEAN, brightness : {50, 150}]

BiometricBodies == [faceImageData : {"", "image"}, livenessData : LivenessBodies]

\* biometricRequestSchema: z.object strips the keys it does not name and
\* requires the ones it names
biometricRequestSchema(body) ==
  /\ body.faceImageData # ""
  /\ {"blinkDetected", "headMovement", "brightness"} \subseteq DOMAIN body.livenessData
  /\ body.livenessData.blinkDetected \in BOOLEAN
  /\ body.livenessData.headMovement \in BOOLEAN
  /\ body.livenessData.brightness \in 0..100

\* JSON.stringify of the LivenessData the evaluator returned
LivenessDataJson(l) ==
  [blinkDetected |-> l.blinkDetected, headMovement |-> l.headMovement,
   facePresent |-> l.facePresent, faceAngle |-> [pitch |-> 0, roll |-> 0, yaw |-> 0],
   eyeAspectRatio |-> 30, timestamp |-> 1]

\* the body apiRequest sends for what performLivenessCheck handed to mutate
RequestBody(p) ==
  [faceImageData |-> p.faceImageData.image, livenessData |-> LivenessDataJson(p.livenessData)]

\* the body apiRequest sends for what handleVerificationComplete handed to
\* mutateAsync
IvRequestBody(p) ==
  [faceImageData |-> p.faceImageData,
   livenessData |-> [blinkDetected |-> p.livenessData.blinkDetected,
                     headMovement |-> p.livenessData.headMovement,
                     timestamp |-> 1]]

\* how the mutation can settle: apiRequest throws on every response that
\* is not ok, and the network can fail
MutationOutcomes(body) ==
  IF biometricRequestSchema(body) THEN {"success", "rejected", "error"} ELSE {"error"}

(* ------------------------------------------------------------------ *)
(* components/biometric-verification.tsx                                *)
(* ------------------------------------------------------------------ *)

\* a state setter called after the unmount changes nothing
SetState(cur, new) == IF mounted THEN new ELSE cur

\* error.message.includes(sub), for the messages and substrings that occur
Includes(message, sub) ==
  <<message, sub>> \in
    { <<"Video playback timed out", "timed out">>,
      <<"Camera access was denied. Please grant camera permissions to continue.",
        "permission">>,
      <<"Blink not detected", "detect">>,
      <<"Head turn not detected", "detect">>,
      <<"Failed to capture frame from camera", "frame">> }

\* the description of the toast in startVerification's catch
CameraToast(e) ==
  IF ~e.isError THEN "Failed to access camera. Please check permissions and try again."
  ELSE IF e.name = "NotAllowedError"
  THEN "Camera access was denied. Please allow camera access to continue."
  ELSE IF e.name = "NotFoundError"
  THEN "No camera found. Please connect a camera and try again."
  ELSE IF Includes(e.message, "Video element")
  THEN "Video element is not available. Please refresh the page and try again."
  ELSE IF Includes(e.message, "timed out")
  THEN "Camera is taking too long to start. Please try again."
  ELSE "Failed to access camera. Please check permissions and try again."

\* the description of the toast in performLivenessCheck's catch
LivenessToast(e) ==
  IF ~e.isError THEN "Could not complete liveness detection. Please try again."
  ELSE IF Includes(e.message, "permission")
  THEN "Camera permission denied. Please allow camera access and try again."
  ELSE IF Includes(e.message, "face") \/ Includes(e.message, "detect")
  THEN "Could not detect face. Please ensure your face is clearly visible."
  ELSE IF Includes(e.message, "frame")
  THEN "Failed to capture image. Please try again."
  ELSE "Could not complete liveness detection. Please try again."

\* the catch of startVerification, with the camera module in state (cs, st)
CameraFailed(e, cs, st) ==
  /\ cameraStarted' = SetState(cameraStarted, FALSE)
  /\ LET r == stopCamera(cs, st)
     IN currentStream' = r.currentStream /\ streams' = r.streams
  /\ toast' = CameraToast(e)
  /\ outcome' = e.message
  /\ pc' = "idle"

\* the catch and the finally of performLivenessCheck; startVerification
\* then returns
LivenessFailed(e) ==
  /\ toast' = LivenessToast(e)
  /\ LET r == stopCamera(currentStream, streams)
     IN currentStream' = r.currentStream /\ streams' = r.streams
  /\ cameraStarted' = SetState(cameraStarted, FALSE)
  /\ isProcessing' = SetState(isProcessing, FALSE)
  /\ outcome' = e.message
  /\ wait' = WaitIdle
  /\ pc' = "idle"

\* the user clicks Start Verification (the button is disabled while
\* cameraStarted or while the mutation is pending): startVerification up
\* to the getUserMedia await inside startCamera
StartVerification ==
  /\ mounted /\ ~cameraStarted /\ mutation # "pending"
  /\ pc = "idle"
  /\ runs < MaxRuns
  /\ runs' = runs + 1
  /\ cameraStarted' = TRUE
  /\ LET r == startCameraEntry(cameraLib, currentStream, streams)
     IN currentStream' = r.currentStream /\ streams' = r.streams
  /\ pc' = "camera"
  /\ outcome' = "running"
  /\ UNCHANGED <<cameraLib, loaderVars, mounted, isProcessing, currentInstruction,
                 completedSteps, toast, mutation, payload, faceImageData, livenessData,
                 video, evalVars, waitVars>>
  /\ UNCHANGED <<ivVars, srvVars, pageVars>>

\* getUserMedia settles: startCamera registers the stream and waits for
\* the video element, or throws into startVerification's catch
GetUserMedia ==
  /\ pc = "camera"
  /\ \E u \in UserMedia :
       IF u # "ok"
       THEN CameraFailed(startCameraError(cameraLib, u), currentStream, streams)
       ELSE LET n == Len(streams) + 1
            IN IF cameraLib = "camera.ts" /\ ~mounted
               THEN CameraFailed(startCameraError(cameraLib, "Error"),
                                 currentStream, Append(streams, 1))
               ELSE /\ currentStream' = n
                    /\ streams' = Append(streams, 0)
                    /\ pc' = "metadata"
                    /\ UNCHANGED <<cameraStarted, toast, outcome>>
  /\ UNCHANGED <<cameraLib, loaderVars, mounted, isProcessing, currentInstruction,
                 completedSteps, runs, mutation, payload, faceImageData, livenessData,
                 video, evalVars, waitVars>>
  /\ UNCHANGED <<ivVars, srvVars, pageVars>>

\* the promise of startCamera settles; startVerification then tests
\* videoElement.readyState and either goes on to its 500 ms delay or waits
\* for canplay
StreamEvent ==
  /\ pc = "metadata"
  /\ \E ev \in StreamEvents(cameraLib) :
       CASE ev = "playfailed" ->
              /\ pc' = "stuck"
              /\ UNCHANGED <<cameraStarted, currentStream, streams, toast, outcome>>
         [] ev = "error" -> CameraFailed(ErrorEvent, currentStream, streams)
         [] OTHER ->
              /\ \E ready \in BOOLEAN : pc' = IF ready THEN "delay" ELSE "video"
              /\ UNCHANGED <<cameraStarted, currentStream, streams, toast, outcome>>
  /\ UNCHANGED <<cameraLib, loaderVars, mounted, isProcessing, currentInstruction,
                 completedSteps, runs, mutation, payload, faceImageData, livenessData,
                 video, evalVars, waitVars>>
  /\ UNCHANGED <<ivVars, srvVars, pageVars>>

\* canplay, error or the 5000 ms timeout of startVerification's wait
VideoReady ==
  /\ pc = "video"
  /\ \E ev \in {"canplay", "error", "timeout"} :
       CASE ev = "canplay" ->
              /\ pc' = "delay"
              /\ UNCHANGED <<cameraStarted, currentStream, streams, toast, outcome>>
         [] ev = "error" ->
              CameraFailed(Error("Video playback error"), currentStream, streams)
         [] OTHER ->
              CameraFailed(Error("Video playback timed out"), currentStream, streams)
  /\ UNCHANGED <<cameraLib, loaderVars, mounted, isProcessing, currentInstruction,
                 completedSteps, runs, mutation, payload, faceImageData, livenessData,
                 video, evalVars, waitVars>>
  /\ UNCHANGED <<ivVars, srvVars, pageVars>>

\* the 500 ms delay ends: performLivenessCheck up to the await of
\* loadFaceApiModels(), or its early return when the video element is gone
DelayDone ==
  /\ pc = "delay"
  /\ IF ~mounted
     THEN /\ toast' = "Video element is not available"
          /\ outcome' = "Video element is not available"
          /\ pc' = "idle"
          /\ UNCHANGED <<isProcessing, loaderVars>>
     ELSE /\ isProcessing' = TRUE
          /\ LET l == loadFaceApiModels(modelsLoaded, isLoading, loadPromise)
             IN isLoading' = l.isLoading /\ loadPromise' = l.loadPromise
          /\ pc' = "models"
          /\ UNCHANGED <<modelsLoaded, toast, outcome>>
  /\ UNCHANGED <<camVars, mounted, cameraStarted, currentInstruction, completedSteps,
                 runs, mutation, payload, faceImageData, livenessData, video,
                 evalVars, waitVars>>
  /\ UNCHANGED <<ivVars, srvVars, pageVars>>

\* the promise loadFaceApiModels returned settles
ModelsSettled ==
  /\ pc = "models"
  /\ \E ok \in BOOLEAN :
       /\ modelsLoaded \/ loadPromise = "fulfilled" => ok
       /\ loadPromise = "rejected" /\ ~modelsLoaded => ~ok
       /\ IF ok
          THEN /\ modelsLoaded' = TRUE
               /\ isLoading' = IF loadPromise = "pending" THEN FALSE ELSE isLoading
               /\ loadPromise' = IF loadPromise = "pending" THEN "fulfilled" ELSE loadPromise
               /\ currentInstruction' = SetState(currentInstruction, 0)
               /\ pc' = "settle"
               /\ UNCHANGED <<currentStream, streams, cameraStarted, isProcessing, toast,
                              outcome, wait>>
          ELSE /\ loadPromise' = "rejected"
               /\ UNCHANGED <<modelsLoaded, isLoading, currentInstruction>>
               /\ LivenessFailed(Error("model load error"))
  /\ UNCHANGED <<cameraLib, mounted, completedSteps, runs, mutation, payload,
                 faceImageData, livenessData, video, evalVars, caller, observe, seen>>
  /\ UNCHANGED <<ivVars, srvVars, pageVars>>

\* a test that lets every capture through
CaptureRejectedNever(image) == FALSE

\* !faceImageData || faceImageData === 'data:,'
CaptureRejected(image) == image = "" \/ image = "data:,"

\* the 1000 ms of step 1 end: captureFrame, which gives c, then the
\* detectLiveness call
SettledWith(c) ==
  /\ pc = "settle"
  /\ CASE c = "nocontext" ->
            /\ LivenessFailed(Error("Could not get canvas context"))
            /\ UNCHANGED faceImageData
       [] c # "nocontext" /\ ~mounted ->
            /\ LivenessFailed(Error("Cannot read properties of null"))
            /\ UNCHANGED faceImageData
       [] c # "nocontext" /\ mounted /\ CaptureRejected(c) ->
            /\ LivenessFailed(Error("Failed to capture frame from camera"))
            /\ UNCHANGED faceImageData
       [] OTHER ->
            /\ faceImageData' = [run |-> runs, step |-> 1, image |-> c]
            /\ pc' = "presence"
            /\ UNCHANGED <<currentStream, streams, cameraStarted, isProcessing, toast,
                           outcome, wait>>
  /\ UNCHANGED <<cameraLib, loaderVars, mounted, currentInstruction, completedSteps, runs,
                 mutation, payload, livenessData, video, evalVars, caller, observe, seen>>
  /\ UNCHANGED <<ivVars, srvVars, pageVars>>

Settled ==
  /\ pc = "settle"
  /\ \E c \in Captures : SettledWith(c)

\* what videoRef.current is when a wait is called
VideoRef == IF mounted THEN "element" ELSE "null"

\* the detectLiveness call of step 1 returns; whatever it reports, step 1
\* is marked done and waitForBlink is called
Presence ==
  /\ pc = "presence"
  /\ \E f \in Frames :
       /\ ~mounted => f.kind = "notready"
       /\ Detect(f)
  /\ livenessData' = result'
  /\ completedSteps' = SetState(completedSteps, <<TRUE, FALSE, FALSE>>)
  /\ currentInstruction' = SetState(currentInstruction, 1)
  /\ video' = VideoRef
  /\ wait' = WaitEntered("blink")
  /\ pc' = "blink"
  /\ UNCHANGED <<camVars, loaderVars, mounted, cameraStarted, isProcessing, runs, outcome,
                 toast, mutation, payload, faceImageData, caller, observe, seen>>
  /\ UNCHANGED <<ivVars, srvVars, pageVars>>

\* the extractor of the running wait answers s after d ms; nothing can be
\* found in a null video. An exception leaves the wait and lands in the
\* catch of performLivenessCheck
PollAnsweredWith(s, d) ==
  /\ pc \in {"blink", "head"}
  /\ wait.pc = "detect"
  /\ video = "null" => s.kind # "face"
  /\ LET w == WaitAnswered(wait, s, d)
     IN IF w.pc = "threw"
        THEN LivenessFailed(Error("extractor error"))
        ELSE /\ wait' = w
             /\ UNCHANGED <<currentStream, streams, cameraStarted, isProcessing,
                            toast, outcome, pc>>
  /\ UNCHANGED <<cameraLib, loaderVars, mounted, currentInstruction, completedSteps, runs,
                 mutation, payload, faceImageData, livenessData, video, evalVars,
                 caller, observe, seen>>
  /\ UNCHANGED <<ivVars, srvVars, pageVars>>

PollAnswered ==
  /\ pc \in {"blink", "head"}
  /\ \E s \in Samples(wait.fn), d \in DetectMs : PollAnsweredWith(s, d)

\* a continuation of waitForBlink that goes on to step 3 whatever the
\* wait returned
BlinkReturnedIgnored(blinked) ==
  /\ completedSteps' = SetState(completedSteps, <<TRUE, TRUE, FALSE>>)
  /\ currentInstruction' = SetState(currentInstruction, 2)
  /\ video' = VideoRef
  /\ wait' = WaitEntered("head")
  /\ pc' = "head"
  /\ UNCHANGED <<currentStream, streams, cameraStarted, isProcessing, toast, outcome,
                 mutation, payload>>

\* waitForBlink returned: step 2 is marked done and waitForHeadTurn is
\* called, or 'Blink not detected' is thrown
BlinkReturned(blinked) ==
  IF ~blinked
  THEN /\ LivenessFailed(Error("Blink not detected"))
       /\ UNCHANGED <<completedSteps, currentInstruction, video, mutation, payload>>
  ELSE /\ completedSteps' = SetState(completedSteps, <<TRUE, TRUE, FALSE>>)
       /\ currentInstruction' = SetState(currentInstruction, 2)
       /\ video' = VideoRef
       /\ wait' = WaitEntered("head")
       /\ pc' = "head"
       /\ UNCHANGED <<currentStream, streams, cameraStarted, isProcessing, toast, outcome,
                      mutation, payload>>

\* waitForHeadTurn returned: step 3 is marked done and the capture and
\* the evaluator's answer of step 1 are submitted, or 'Head turn not
\* detected' is thrown
HeadReturned(turned) ==
  IF ~turned
  THEN /\ LivenessFailed(Error("Head turn not detected"))
       /\ UNCHANGED <<completedSteps, currentInstruction, video, mutation, payload>>
  ELSE /\ completedSteps' = SetState(completedSteps, <<TRUE, TRUE, TRUE>>)
       /\ mutation' = "pending"
       /\ payload' = [faceImageData |-> faceImageData, livenessData |-> livenessData]
       /\ isProcessing' = SetState(isProcessing, FALSE)
       /\ outcome' = "submitted"
       /\ wait' = WaitIdle
       /\ pc' = "idle"
       /\ UNCHANGED <<currentStream, streams, cameraStarted, currentInstruction, toast,
                      video>>

\* the 100 ms sleep of the running wait ends: the loop goes round or the
\* wait returns to performLivenessCheck
PollTimer ==
  /\ pc \in {"blink", "head"}
  /\ wait.pc = "sleep"
  /\ LET w == WaitWoken(wait)
     IN IF w.pc = "detect"
        THEN /\ wait' = w
             /\ UNCHANGED <<currentStream, streams, cameraStarted, isProcessing, toast,
                            outcome, pc, completedSteps, currentInstruction, video,
                            mutation, payload>>
        ELSE IF pc = "blink" THEN BlinkReturned(WaitReturnValue(w))
        ELSE HeadReturned(WaitReturnValue(w))
  /\ UNCHANGED <<cameraLib, loaderVars, mounted, runs, faceImageData, livenessData,
                 evalVars, caller, observe, seen>>
  /\ UNCHANGED <<ivVars, srvVars, pageVars>>

\* the request of verifyBiometricMutation settles
MutationSettled ==
  /\ mutation = "pending"
  /\ \E r \in MutationOutcomes(RequestBody(payload)) :
       /\ mutation' = r
       /\ toast' = IF ~mounted THEN toast
                   ELSE CASE r = "success" -> "Face match"
                          [] r = "rejected" -> "Please try the biometric verification again"
                          [] OTHER -> "Failed to process biometric data. Please try again."
  /\ UNCHANGED <<camVars, loaderVars, compVars, pc, runs, outcome, payload, faceImageData,
                 livenessData, video, evalVars, waitVars>>
  /\ UNCHANGED <<ivVars, srvVars, pageVars>>

\* the component unmounts: both effect cleanups call stopCamera()
Unmount ==
  /\ mounted
  /\ mounted' = FALSE
  /\ LET r == stopCamera(currentStream, streams)
         q == stopCamera(r.currentStream, r.streams)
     IN currentStream' = q.currentStream /\ streams' = q.streams
  /\ UNCHANGED <<cameraLib, loaderVars, cameraStarted, isProcessing, currentInstruction,
                 completedSteps, runVars, evalVars, waitVars>>
  /\ UNCHANGED <<ivVars, srvVars, pageVars>>

\* a local or an argument that holds nothing yet
Undefined == [undefined |-> TRUE]

BaseInit ==
  /\ cameraLib \in CameraLibs
  /\ currentStream = 0
  /\ streams = <<>>
  /\ modelsLoaded = FALSE
  /\ isLoading = FALSE
  /\ loadPromise = "null"
  /\ mounted = TRUE
  /\ cameraStarted = FALSE
  /\ isProcessing = FALSE
  /\ currentInstruction = 0
  /\ completedSteps = <<FALSE, FALSE, FALSE>>
  /\ pc = "idle"
  /\ runs = 0
  /\ outcome = "none"
  /\ toast = "none"
  /\ mutation = "idle"
  /\ payload = Undefined
  /\ faceImageData = Undefined
  /\ livenessData = Undefined
  /\ video = "null"
  /\ sessions = <<>>
  /\ now = 0
  /\ uploads = {}
  /\ response = Response("none", 0, 0)
  /\ pageLoads = 0
  /\ paramsLinkId = 0
  /\ localStorage = [sessionId |-> 0, step |-> "null"]
  /\ pageSessionId = 0
  /\ currentStep = "link"
  /\ isAccessingLink = FALSE
  /\ isRestoringSession = FALSE
  /\ restoreFetch = "none"
  /\ accessRequests = <<>>
  /\ effectPending = FALSE

RunNext ==
  \/ StartVerification
  \/ GetUserMedia
  \/ StreamEvent
  \/ VideoReady
  \/ DelayDone
  \/ ModelsSettled
  \/ Settled
  \/ Presence
  \/ PollAnswered
  \/ PollTimer
  \/ MutationSettled
  \/ Unmount

(* ------------------------------------------------------------------ *)
(* the interval-driven components (part_003, two versions)              *)
(* ------------------------------------------------------------------ *)

Status(r) ==
  [facePresent |-> r.facePresent, blinkDetected |-> r.blinkDetected,
   headMovement |-> r.headMovement]

\* the frames the detection interval's calls can meet
IvFrames == {f \in Frames : f.kind \in {"noface", "face"} /\ f.since = 500}

IvInit(vs) ==
  /\ variant \in vs
  /\ ivCalls = <<>>
  /\ timers = <<>>
  /\ detectionInterval = 0
  /\ livenessStatus = Status(getDefaultLivenessData)
  /\ inflight = <<>>
  /\ ticks = 0
  /\ submissions = 0

AppInit == BaseInit /\ IvInit({"stepwise"})

RemoveAt(q, k) == [j \in 1..(Len(q) - 1) |-> IF j < k THEN q[j] ELSE q[j + 1]]

\* clearInterval(detectionInterval.current)
clearInterval(ts, id) == IF id = 0 THEN ts ELSE [ts EXCEPT ![id].active = FALSE]

\* how getUserMedia settles; every rejection takes the same catch
IvUserMediaOutcomes == {"ok", "NotAllowedError"}

\* the toast of startVerification's catch
IvCameraToast == "Could not access the camera. Please check permissions."

\* the user clicks Start Verification (disabled while cameraStarted or
\* isProcessing, which the call sets only after the camera is up):
\* startVerification up to the getUserMedia await. Version A calls its own
\* initializeCamera, version B the camera module's startCamera
IvStartVerification ==
  /\ variant \in {"A", "B"}
  /\ mounted /\ ~cameraStarted /\ ~isProcessing
  /\ Len(ivCalls) < MaxRuns
  /\ ivCalls' = Append(ivCalls, [pc |-> "camera", status |-> livenessStatus])
  /\ LET r == IF variant = "B" THEN startCameraEntry(cameraLib, currentStream, streams)
              ELSE [currentStream |-> currentStream, streams |-> streams]
     IN currentStream' = r.currentStream /\ streams' = r.streams
  /\ UNCHANGED <<cameraLib, loaderVars, compVars, runVars, evalVars, waitVars, variant,
                 timers, detectionInterval, livenessStatus, inflight, ticks, submissions>>
  /\ UNCHANGED <<srvVars, pageVars>>

\* getUserMedia settles for call i. initializeCamera attaches the stream
\* to the video element and registers it nowhere; startCamera registers it
IvUserMedia ==
  /\ \E i \in DOMAIN ivCalls, u \in IvUserMediaOutcomes :
       /\ ivCalls[i].pc = "camera"
       /\ LET n == Len(streams) + 1
          IN CASE u # "ok" ->
                    /\ toast' = IvCameraToast
                    /\ ivCalls' = [ivCalls EXCEPT ![i].pc = "done"]
                    /\ UNCHANGED <<currentStream, streams>>
               [] u = "ok" /\ variant = "A" ->
                    /\ streams' = Append(streams, 0)
                    /\ ivCalls' = [ivCalls EXCEPT ![i].pc = "delay"]
                    /\ UNCHANGED <<currentStream, toast>>
               [] u = "ok" /\ variant # "A" /\ cameraLib = "camera.ts" /\ ~mounted ->
                    /\ streams' = Append(streams, 1)
                    /\ toast' = IvCameraToast
                    /\ ivCalls' = [ivCalls EXCEPT ![i].pc = "done"]
                    /\ UNCHANGED currentStream
               [] OTHER ->
                    /\ streams' = Append(streams, 0)
                    /\ currentStream' = n
                    /\ ivCalls' = [ivCalls EXCEPT ![i].pc = "metadata"]
                    /\ UNCHANGED toast
  /\ UNCHANGED <<cameraLib, loaderVars, compVars, pc, runs, outcome, mutation, payload,
                 faceImageData, livenessData, video, evalVars, waitVars, variant, timers,
                 detectionInterval, livenessStatus, inflight, ticks, submissions>>
  /\ UNCHANGED <<srvVars, pageVars>>

\* version B: the promise of startCamera settles for call i
IvStreamEvent ==
  /\ \E i \in DOMAIN ivCalls, ev \in StreamEvents(cameraLib) :
       /\ ivCalls[i].pc = "metadata"
       /\ CASE ev = "playfailed" ->
                 /\ ivCalls' = [ivCalls EXCEPT ![i].pc = "stuck"]
                 /\ UNCHANGED toast
            [] ev = "error" ->
                 /\ ivCalls' = [ivCalls EXCEPT ![i].pc = "done"]
                 /\ toast' = IvCameraToast
            [] OTHER ->
                 /\ ivCalls' = [ivCalls EXCEPT ![i].pc = "delay"]
                 /\ UNCHANGED toast
  /\ UNCHANGED <<camVars, loaderVars, compVars, pc, runs, outcome, mutation, payload,
                 faceImageData, livenessData, video, evalVars, waitVars, variant, timers,
                 detectionInterval, livenessStatus, inflight, ticks, submissions>>
  /\ UNCHANGED <<srvVars, pageVars>>

\* the 1000 ms delay of call i ends: setCameraStarted(true) and the
\* detection interval is created, mounted or not
IvDelayDone ==
  /\ \E i \in DOMAIN ivCalls :
       /\ ivCalls[i].pc = "delay"
       /\ ivCalls' = [ivCalls EXCEPT ![i].pc = "done"]
       /\ timers' = Append(timers, [active |-> TRUE, call |-> i])
  /\ detectionInterval' = Len(timers) + 1
  /\ cameraStarted' = SetState(cameraStarted, TRUE)
  /\ UNCHANGED <<camVars, loaderVars, mounted, isProcessing, currentInstruction,
                 completedSteps, runVars, evalVars, waitVars, variant, livenessStatus,
                 inflight, ticks, submissions>>
  /\ UNCHANGED <<srvVars, pageVars>>

\* an interval fires and finds the video element: detectLiveness is called
\* (a firing after the unmount returns at once and changes nothing)
IvTick ==
  /\ mounted
  /\ ticks < MaxTicks
  /\ Len(inflight) < MaxInflight
  /\ \E t \in DOMAIN timers :
       /\ timers[t].active
       /\ inflight' = Append(inflight, t)
  /\ ticks' = ticks + 1
  /\ UNCHANGED <<camVars, loaderVars, compVars, runVars, evalVars, waitVars, variant,
                 ivCalls, timers, detectionInterval, livenessStatus, submissions>>
  /\ UNCHANGED <<srvVars, pageVars>>

\* the toast of handleVerificationComplete's catch
IvFailedToast == "An error occurred during verification. Please try again."

\* a detectLiveness call of the interval answers: the status is copied
\* and, when both flags are reported, the interval detectionInterval.current
\* names is cleared and handleVerificationComplete captures a frame and
\* submits it with the flags of the livenessStatus its call closed over
IvDetected ==
  /\ \E k \in DOMAIN inflight, f \in IvFrames, c \in Captures :
       /\ Detect(f)
       /\ inflight' = RemoveAt(inflight, k)
       /\ livenessStatus' = SetState(livenessStatus, Status(result'))
       /\ LET closed == ivCalls[timers[inflight[k]].call].status
          IN IF ~(result'.blinkDetected /\ result'.headMovement)
             THEN UNCHANGED <<timers, isProcessing, mutation, payload, toast, submissions>>
             ELSE /\ timers' = clearInterval(timers, detectionInterval)
                  /\ CASE ~mounted ->
                            UNCHANGED <<isProcessing, mutation, payload, toast, submissions>>
                       [] mounted /\ c = "nocontext" ->
                            /\ toast' = IvFailedToast
                            /\ isProcessing' = FALSE
                            /\ UNCHANGED <<mutation, payload, submissions>>
                       [] OTHER ->
                            /\ isProcessing' = TRUE
                            /\ mutation' = "pending"
                            /\ payload' =
                                 [faceImageData |-> c,
                                  livenessData |->
                                    [blinkDetected |-> closed.blinkDetected,
                                     headMovement |-> closed.headMovement]]
                            /\ submissions' = submissions + 1
                            /\ UNCHANGED toast
  /\ UNCHANGED <<camVars, loaderVars, mounted, cameraStarted, currentInstruction,
                 completedSteps, pc, runs, outcome, faceImageData, livenessData, video,
                 waitVars, variant, ivCalls, detectionInterval, ticks>>
  /\ UNCHANGED <<srvVars, pageVars>>

\* the request of mutateAsync settles
IvMutationSettled ==
  /\ variant \in {"A", "B"}
  /\ mutation = "pending"
  /\ \E r \in MutationOutcomes(IvRequestBody(payload)) :
       /\ mutation' = r
       /\ toast' = CASE r = "success" -> "Face match"
                     [] r = "rejected" -> "Please try the biometric verification again"
                     [] OTHER -> IvFailedToast
  /\ isProcessing' = SetState(isProcessing, FALSE)
  /\ UNCHANGED <<camVars, loaderVars, mounted, cameraStarted, currentInstruction,
                 completedSteps, pc, runs, outcome, payload, faceImageData, livenessData,
                 video, evalVars, waitVars, ivVars>>
  /\ UNCHANGED <<srvVars, pageVars>>

\* the component unmounts: the effect cleanup clears the interval
\* detectionInterval.current names, calls stopCamera() and
\* resetLivenessDetection(), which in version A is the component's own
\* status reset and in version B the evaluator's
IvUnmount ==
  /\ variant \in {"A", "B"}
  /\ mounted
  /\ mounted' = FALSE
  /\ timers' = clearInterval(timers, detectionInterval)
  /\ LET r == stopCamera(currentStream, streams)
     IN currentStream' = r.currentStream /\ streams' = r.streams
  /\ IF variant = "B" THEN resetLivenessDetection ELSE UNCHANGED evalVars
  /\ UNCHANGED <<cameraLib, loaderVars, cameraStarted, isProcessing, currentInstruction,
                 completedSteps, runVars, waitVars, variant, ivCalls, detectionInterval,
                 livenessStatus, inflight, ticks, submissions>>
  /\ UNCHANGED <<srvVars, pageVars>>

IvNext ==
  \/ IvStartVerification
  \/ IvUserMedia
  \/ IvStreamEvent
  \/ IvDelayDone
  \/ IvTick
  \/ IvDetected
  \/ IvMutationSettled
  \/ IvUnmount

(* ------------------------------------------------------------------ *)
(* the server: routes (part_001), request schemas (part_000), storage   *)
(* ------------------------------------------------------------------ *)

\* session and link ids a request can name; the ids above Len(sessions)
\* name nothing
SessionIds == 1..MaxSessions

\* MemStorage.createVerificationSession: session id and link id are both
\* fresh, and are modelled by the same number
createVerificationSession(id, expiry) ==
  [linkId |-> id, linkExpiry |-> expiry, linkUsed |-> FALSE, linkAccessed |-> FALSE,
   idValidated |-> FALSE, biometricData |-> "null",
   faceMatchScore |-> 0, livenessScore |-> 0, fraudCheckPassed |-> FALSE,
   verificationComplete |-> FALSE, status |-> "link_generated", completedAt |-> "null"]

\* MemStorage.getVerificationSession and getVerificationSessionByLinkId:
\* the id of the session found, 0 for undefined
getVerificationSession(id) == IF id \in DOMAIN sessions THEN id ELSE 0

getVerificationSessionByLinkId(linkId) ==
  IF \E i \in DOMAIN sessions : sessions[i].linkId = linkId
  THEN CHOOSE i \in DOMAIN sessions : sessions[i].linkId = linkId
  ELSE 0

\* the request bodies of upload-id: idType, and whether a file came along
UploadBodies == [idType : {"book", "card", "passport"}, file : BOOLEAN]

\* idUploadRequestSchema
idUploadRequestSchema(body) == body.idType \in {"book", "card"}

\* a link expires 24 hours after its generation
LINK_LIFETIME == 2

\* Math.floor(85 + Math.random() * 15), Math.floor(90 + Math.random() * 10)
Scores == {[faceMatchScore |-> 85, livenessScore |-> 90],
           [faceMatchScore |-> 99, livenessScore |-> 99]}

FraudCheckPassed(faceMatchScore, livenessScore) ==
  faceMatchScore > 80 /\ livenessScore > 85

\* an access test that forgets the one-time use
LinkRefusedNever(session) == FALSE

\* if (session.linkUsed) return res.status(409)
LinkRefused(session) == session.linkUsed

\* an upload test that asks only for the session
UploadRefusedUnlessExists(id) == id = 0

\* if (!session || !session.linkAccessed) return res.status(400)
UploadRefused(id) == id = 0 \/ ~sessions[id].linkAccessed

\* if (!session || !session.idValidated) return res.status(400)
BiometricRefused(id) == id = 0 \/ ~sessions[id].idValidated

\* POST /api/verification/generate-link
GenerateLink ==
  /\ Len(sessions) < MaxSessions
  /\ LET id == Len(sessions) + 1
     IN /\ sessions' = Append(sessions, createVerificationSession(id, now + LINK_LIFETIME))
        /\ response' = Response("generate-link", id, 200)
  /\ UNCHANGED <<now, uploads, evalVars, waitVars, camVars, loaderVars, compVars, runVars,
                 ivVars, pageVars>>

\* POST /api/verification/:linkId/access. The handler awaits MemStorage
\* only, whose promises are settled when they are made, so it runs from
\* the lookup to the response with no other request in between
accessHandler(linkId) ==
  /\ LET id == getVerificationSessionByLinkId(linkId)
     IN CASE id = 0 ->
               /\ response' = Response("access", linkId, 404)
               /\ UNCHANGED sessions
          [] id # 0 /\ now > sessions[id].linkExpiry ->
               /\ response' = Response("access", linkId, 410)
               /\ UNCHANGED sessions
          [] id # 0 /\ now <= sessions[id].linkExpiry /\ LinkRefused(sessions[id]) ->
               /\ response' = Response("access", linkId, 409)
               /\ UNCHANGED sessions
          [] OTHER ->
               /\ sessions' = [sessions EXCEPT ![id].linkAccessed = TRUE,
                                               ![id].linkUsed = TRUE,
                                               ![id].status = "id_upload"]
               /\ response' = Response("access", linkId, 200)

AccessLink(linkId) ==
  /\ accessHandler(linkId)
  /\ UNCHANGED <<now, uploads, evalVars, waitVars, camVars, loaderVars, compVars, runVars,
                 ivVars, pageVars>>

Access == \E linkId \in SessionIds : AccessLink(linkId)

\* POST /api/verification/:sessionId/upload-id up to the await of
\* processIDDocument
UploadIdWith(sessionId, body) ==
  /\ LET id == getVerificationSession(sessionId)
     IN IF ~idUploadRequestSchema(body) \/ UploadRefused(id) \/ ~body.file
        THEN /\ response' = Response("upload-id", sessionId, 400)
             /\ UNCHANGED uploads
        ELSE /\ Cardinality(uploads) < MaxUploads
             /\ uploads' = uploads \cup {sessionId}
             /\ UNCHANGED response
  /\ UNCHANGED <<sessions, now, evalVars, waitVars, camVars, loaderVars, compVars, runVars,
                 ivVars, pageVars>>

UploadId == \E sessionId \in SessionIds, body \in UploadBodies : UploadIdWith(sessionId, body)

\* processIDDocument and validateIDDocument are through, or sharp threw
UploadProcessed ==
  /\ \E u \in uploads, ok \in BOOLEAN :
       /\ uploads' = uploads \ {u}
       /\ IF ok
          THEN /\ sessions' = [sessions EXCEPT ![u].idValidated = TRUE,
                                               ![u].status = "biometric"]
               /\ response' = Response("upload-id", u, 200)
          ELSE /\ response' = Response("upload-id", u, 400)
               /\ UNCHANGED sessions
  /\ UNCHANGED <<now, evalVars, waitVars, camVars, loaderVars, compVars, runVars, ivVars, pageVars>>

\* POST /api/verification/:sessionId/biometric
BiometricWith(sessionId, body) ==
  /\ LET id == getVerificationSession(sessionId)
     IN IF ~biometricRequestSchema(body) \/ BiometricRefused(id)
        THEN /\ response' = Response("biometric", sessionId, 400)
             /\ UNCHANGED sessions
        ELSE \E sc \in Scores :
               LET passed == FraudCheckPassed(sc.faceMatchScore, sc.livenessScore)
               IN /\ sessions' =
                       [sessions EXCEPT ![id].biometricData = "set",
                                        ![id].faceMatchScore = sc.faceMatchScore,
                                        ![id].livenessScore = sc.livenessScore,
                                        ![id].fraudCheckPassed = passed,
                                        ![id].verificationComplete = passed,
                                        ![id].status = IF passed THEN "complete"
                                                       ELSE "failed",
                                        ![id].completedAt = IF passed THEN "date"
                                                            ELSE "null"]
               /\ response' = Response("biometric", sessionId, 200)
  /\ UNCHANGED <<now, uploads, evalVars, waitVars, camVars, loaderVars, compVars, runVars,
                 ivVars, pageVars>>

Biometric ==
  \E sessionId \in SessionIds, body \in BiometricBodies : BiometricWith(sessionId, body)

\* time passes
ClockTick ==
  /\ now < MaxNow
  /\ now' = now + 1
  /\ UNCHANGED <<sessions, uploads, response, evalVars, waitVars, camVars, loaderVars,
                 compVars, runVars, ivVars, pageVars>>

ServerNext ==
  \/ GenerateLink
  \/ Access
  \/ UploadId
  \/ UploadProcessed
  \/ Biometric
  \/ ClockTick

(* ------------------------------------------------------------------ *)
(* pages/verification.tsx: restoring a stored session, accessing a link *)
(* ------------------------------------------------------------------ *)

NoStoredSession == [sessionId |-> 0, step |-> "null"]

\* the condition of the link-access effect, on the values of one render
ShouldAccessLink(linkId, sid, accessing, restoring) ==
  linkId # 0 /\ sid = 0 /\ ~accessing /\ ~restoring

\* accessLinkMutation.mutate(linkId) by the page instance of load n
Mutate(requests, n, linkId) ==
  Append(requests, [load |-> n, linkId |-> linkId, status |-> 0])

\* the page is opened or reloaded at /verification/:linkId?. The state is
\* the initial one and both effects run after the first render, on that
\* render's values: the restore effect starts its fetch when a session is
\* stored, the link-access effect tests sessionId, isAccessingLink and
\* isRestoringSession as they were rendered (null, false, false)
PageLoad ==
  /\ pageLoads < MaxLoads
  /\ pageLoads' = pageLoads + 1
  /\ \E linkId \in {0} \cup SessionIds :
       /\ paramsLinkId' = linkId
       /\ pageSessionId' = 0
       /\ currentStep' = "link"
       /\ LET restoring == localStorage.sessionId # 0 /\ localStorage.step # "null"
          IN /\ isRestoringSession' = restoring
             /\ restoreFetch' = IF restoring THEN "pending" ELSE "none"
       /\ IF ShouldAccessLink(linkId, 0, FALSE, FALSE)
          THEN /\ Len(accessRequests) < MaxAccess
               /\ isAccessingLink' = TRUE
               /\ accessRequests' = Mutate(accessRequests, pageLoads', linkId)
          ELSE /\ isAccessingLink' = FALSE
               /\ UNCHANGED accessRequests
  /\ effectPending' = FALSE
  /\ UNCHANGED <<localStorage, evalVars, waitVars, camVars, loaderVars, compVars, runVars,
                 ivVars, srvVars>>

\* the fetch of the restore effect settles: GET /api/verification/:id
\* answers 200 when the session exists; otherwise, and on a network error,
\* the stored session is forgotten
RestoreSettled ==
  /\ restoreFetch = "pending"
  /\ \E network \in BOOLEAN :
       IF network /\ getVerificationSession(localStorage.sessionId) # 0
       THEN /\ pageSessionId' = localStorage.sessionId
            /\ currentStep' = localStorage.step
            /\ UNCHANGED localStorage
       ELSE /\ localStorage' = NoStoredSession
            /\ UNCHANGED <<pageSessionId, currentStep>>
  /\ isRestoringSession' = FALSE
  /\ restoreFetch' = "none"
  /\ effectPending' = TRUE
  /\ UNCHANGED <<pageLoads, paramsLinkId, isAccessingLink, accessRequests, evalVars,
                 waitVars, camVars, loaderVars, compVars, runVars, ivVars, srvVars>>

\* the link-access effect runs again after a render in which one of its
\* dependencies has changed
LinkAccessEffect ==
  /\ effectPending
  /\ effectPending' = FALSE
  /\ IF ShouldAccessLink(paramsLinkId, pageSessionId, isAccessingLink, isRestoringSession)
     THEN /\ Len(accessRequests) < MaxAccess
          /\ isAccessingLink' = TRUE
          /\ accessRequests' = Mutate(accessRequests, pageLoads, paramsLinkId)
     ELSE UNCHANGED <<isAccessingLink, accessRequests>>
  /\ UNCHANGED <<pageLoads, paramsLinkId, localStorage, pageSessionId, currentStep,
                 isRestoringSession, restoreFetch, evalVars, waitVars, camVars,
                 loaderVars, compVars, runVars, ivVars, now, uploads>>
  /\ UNCHANGED <<sessions, response>>

\* a link-access request of the page reaches the server
AccessArrives ==
  /\ \E k \in DOMAIN accessRequests :
       /\ accessRequests[k].status = 0
       /\ accessHandler(accessRequests[k].linkId)
       /\ accessRequests' = [accessRequests EXCEPT ![k].status = response'.status]
  /\ UNCHANGED <<pageLoads, paramsLinkId, localStorage, pageSessionId, currentStep,
                 isAccessingLink, isRestoringSession, restoreFetch, effectPending,
                 evalVars, waitVars, camVars, loaderVars, compVars, runVars, ivVars,
                 now, uploads>>

\* the response of a link-access request arrives: onSuccess or onError of
\* accessLinkMutation; a response for a page that was reloaded since is
\* dropped
AccessSettled ==
  /\ \E k \in DOMAIN accessRequests :
       LET r == accessRequests[k]
       IN /\ r.status # 0
          /\ accessRequests' = RemoveAt(accessRequests, k)
          /\ CASE r.load # pageLoads ->
                    UNCHANGED <<pageSessionId, currentStep, isAccessingLink, localStorage,
                                effectPending>>
               [] r.load = pageLoads /\ r.status = 200 ->
                    /\ pageSessionId' = getVerificationSessionByLinkId(r.linkId)
                    /\ currentStep' = "id_upload"
                    /\ localStorage' = [sessionId |-> pageSessionId', step |-> "id_upload"]
                    /\ isAccessingLink' = FALSE
                    /\ effectPending' = TRUE
               [] r.load = pageLoads /\ r.status = 409 ->
                    /\ IF localStorage.sessionId # 0
                       THEN /\ pageSessionId' = localStorage.sessionId
                            /\ currentStep' = IF localStorage.step # "null"
                                              THEN localStorage.step ELSE "id_upload"
                       ELSE UNCHANGED <<pageSessionId, currentStep>>
                    /\ isAccessingLink' = FALSE
                    /\ effectPending' = TRUE
                    /\ UNCHANGED localStorage
               [] r.load = pageLoads /\ r.status = 410 ->
                    /\ localStorage' = NoStoredSession
                    /\ isAccessingLink' = FALSE
                    /\ effectPending' = TRUE
                    /\ UNCHANGED <<pageSessionId, currentStep>>
               [] OTHER ->
                    /\ isAccessingLink' = FALSE
                    /\ effectPending' = TRUE
                    /\ UNCHANGED <<pageSessionId, currentStep, localStorage>>
  /\ UNCHANGED <<pageLoads, paramsLinkId, isRestoringSession, restoreFetch, evalVars,
                 waitVars, camVars, loaderVars, compVars, runVars, ivVars, srvVars>>

PageNext ==
  \/ PageLoad
  \/ RestoreSettled
  \/ LinkAccessEffect
  \/ AccessArrives
  \/ AccessSettled
  \/ GenerateLink
  \/ ClockTick

(* ------------------------------------------------------------------ *)
(* Specifications                                                       *)
(* ------------------------------------------------------------------ *)

\* the evaluator alone, one specification per version
InitMediaPipe == EvalInit("mediapipe") /\ WaitInit(FALSE) /\ AppInit
InitFaceApi == EvalInit("faceapi") /\ WaitInit(FALSE) /\ AppInit
InitBlazeFace == EvalInit("blazeface") /\ WaitInit(FALSE) /\ AppInit
SpecMediaPipe == InitMediaPipe /\ [][EvalNext]_vars
SpecFaceApi == InitFaceApi /\ [][EvalNext]_vars
SpecBlazeFace == InitBlazeFace /\ [][EvalNext]_vars

\* the two waits called on their own, observed
InitWait == EvalInit("mediapipe") /\ WaitInit(TRUE) /\ AppInit
SpecWait == InitWait /\ [][WaitNext]_vars

\* one mounted biometric-verification component with the MediaPipe
\* evaluator, the user, the browser and the network around it
InitRun == EvalInit("mediapipe") /\ WaitInit(FALSE) /\ AppInit
SpecRun == InitRun /\ [][RunNext]_vars

\* the same component where every promise performLivenessCheck awaits
\* settles: the model load, the timers, each extractor call
SpecRunFair ==
  /\ InitRun
  /\ [][RunNext]_vars
  /\ WF_<<pc, wait>>(ModelsSettled)
  /\ WF_<<pc, wait>>(Settled)
  /\ WF_<<pc, wait>>(Presence)
  /\ WF_<<pc, wait>>(PollAnswered)
  /\ WF_<<pc, wait>>(PollTimer)

\* one mounted interval-driven component, either version, with the
\* MediaPipe evaluator
InitInterval ==
  EvalInit("mediapipe") /\ WaitInit(FALSE) /\ BaseInit /\ IvInit({"A", "B"})
SpecInterval == InitInterval /\ [][IvNext]_vars

\* the server and the requests that reach it
InitServer ==
  EvalInit("mediapipe") /\ WaitInit(FALSE) /\ AppInit /\ cameraLib = "camera.ts"
SpecServer == InitServer /\ [][ServerNext]_vars

\* the verification page and the server it talks to
InitPage == InitServer
SpecPage == InitPage /\ [][PageNext]_vars

(* ------------------------------------------------------------------ *)
(* Claims                                                               *)
(* ------------------------------------------------------------------ *)

\* C1: after any sequence of detectLiveness calls the eye-aspect-ratio
\* history holds at most 10 entries and the head-position history at most
\* 30. The BlazeFace version never shifts eyeAspectRatios, so this fails
\* there at the 11th processed face frame.
C1_HistoriesBounded ==
  Len(eyeAspectRatios) <= EarCapFaceApi /\ Len(headPositions) <= HeadCap

\* C2: within one run (no reset in between) a flag detectLiveness has
\* reported true is reported true by every later call. Every version
\* returns the all-false default on a frame it does not process.
C2_FlagsMonotone ==
  [][/\ result.blinkDetected => result'.blinkDetected
     /\ result.headMovement => result'.headMovement]_vars

\* C3: a detectLiveness call on a frame without a face reports
\* facePresent=false, leaves both histories and the blink counter as they
\* were and reports the flags of the previous call.
NoFaceCall == \E f \in Frames : f.kind = "noface" /\ detectLiveness(f)

C3_NoFaceIsNoOp ==
  [][NoFaceCall =>
       /\ result'.facePresent = FALSE
       /\ UNCHANGED <<eyeAspectRatios, blinkCounter, headPositions>>
       /\ result'.blinkDetected = result.blinkDetected
       /\ result'.headMovement = result.headMovement]_vars

Face(v) == [kind |-> "face", v |-> v]

Front(tr) == SubSeq(tr, 1, Len(tr) - 1)

\* the observer has recorded every sample of the running wait
TraceComplete == Len(seen) < MaxTrace

\* the frames of a trace in which a face was found: the evaluated frames
Evaluated(tr) == SelectSeq(tr, LAMBDA s : s.kind = "face")

\* falling edges of a trace: evaluated frames below the closed-eye
\* threshold whose previous evaluated frame, if any, was not below it
FallingEdges(tr) ==
  LET e == Evaluated(tr)
  IN Cardinality({i \in 1..Len(e) :
       /\ e[i].v < BLINK_EAR_THRESHOLD
       /\ i > 1 => e[i - 1].v >= BLINK_EAR_THRESHOLD})

\* C4: waitForBlink counts one blink per falling edge of the average EAR
\* (a below-threshold evaluated frame whose previous evaluated frame was
\* not below), never on a consecutive below-threshold frame; it stops
\* polling and reports success exactly at the frame of the BLINK_COUNT-th
\* falling edge, and reports failure only with fewer edges. For EAR
\* 0.3, 0.18, 0.3, 0.18 the count is 1 after the third frame and 2 after
\* the fourth, where the wait succeeds without polling a fifth.
C4_BlinkOnFallingEdge ==
  (wait.fn = "blink" /\ TraceComplete) =>
    /\ wait.blinks = FallingEdges(seen)
    /\ wait.pc = "detect" => FallingEdges(seen) < BLINK_COUNT
    /\ caller = "true" =>
         /\ FallingEdges(seen) = BLINK_COUNT
         /\ FallingEdges(Front(seen)) = BLINK_COUNT - 1
    /\ caller = "false" => FallingEdges(seen) < BLINK_COUNT
    /\ seen = <<Face(30), Face(18), Face(30)>> => wait.blinks = 1 /\ caller # "true"
    /\ seen = <<Face(30), Face(18), Face(30), Face(18)>> =>
         wait.blinks = 2 /\ wait.pc \in {"sleep", "returned"} /\ caller \in {"waiting", "true"}

C4_Witness ==
  /\ wait.fn = "blink"
  /\ caller = "true"
  /\ seen = <<Face(30), Face(18), Face(30), Face(18)>>

SawLeft(tr) == \E i \in 1..Len(tr) : tr[i].kind = "face" /\ tr[i].v < -HEAD_OFFSET_THRESHOLD

SawRight(tr) == \E i \in 1..Len(tr) : tr[i].kind = "face" /\ tr[i].v > HEAD_OFFSET_THRESHOLD

\* C5: waitForHeadTurn reports head movement iff a sample below the
\* negative threshold and a sample above the positive threshold have both
\* been seen before the timeout, in either order; a direction once seen
\* stays seen whatever follows; the wait stops polling and succeeds at the
\* first frame at which both have appeared. For offsets 0, 0, 0, -25, 0, 25
\* that is the sixth sample.
C5_HeadTurnBothSides ==
  (wait.fn = "head" /\ TraceComplete) =>
    /\ wait.left = SawLeft(seen)
    /\ wait.right = SawRight(seen)
    /\ wait.pc = "detect" => ~(SawLeft(seen) /\ SawRight(seen))
    /\ caller = "true" =>
         /\ SawLeft(seen) /\ SawRight(seen)
         /\ ~(SawLeft(Front(seen)) /\ SawRight(Front(seen)))
    /\ caller = "false" => ~(SawLeft(seen) /\ SawRight(seen))
    /\ seen = <<Face(0), Face(0), Face(0), Face(-25), Face(0)>> =>
         wait.left /\ ~wait.right /\ caller # "true"
    /\ seen = <<Face(0), Face(0), Face(0), Face(-25), Face(0), Face(25)>> =>
         wait.left /\ wait.right /\ wait.pc \in {"sleep", "returned"}
           /\ caller \in {"waiting", "true"}

C5_Witness ==
  /\ wait.fn = "head"
  /\ caller = "true"
  /\ seen = <<Face(0), Face(0), Face(0), Face(-25), Face(0), Face(25)>>

\* the camera is stopped: no stream is registered and every stream that
\* getUserMedia handed out has had its tracks stopped
CameraStopped(cs, st) == cs = 0 /\ \A i \in 1..Len(st) : st[i] >= 1

\* the step on which waitForBlink returns false to performLivenessCheck
BlinkTimedOut ==
  /\ pc = "blink"
  /\ wait.pc = "sleep"
  /\ WaitWoken(wait).pc = "returned"
  /\ ~WaitReturnValue(WaitWoken(wait))
  /\ PollTimer

\* C6: when the blink step's wait ends without the required blinks, the
\* run ends failed with 'Blink not detected': waitForHeadTurn is not
\* called, step 2 is not marked done, nothing is handed to the mutation,
\* no wait is left polling and the camera is stopped.
C6_BlinkTimeoutFails ==
  [][BlinkTimedOut =>
       /\ pc' = "idle"
       /\ outcome' = "Blink not detected"
       /\ wait' = WaitIdle
       /\ completedSteps' = completedSteps
       /\ mutation' = mutation /\ payload' = payload
       /\ CameraStopped(currentStream', streams')]_vars

C6_Witness ==
  /\ pc = "idle" /\ outcome = "Blink not detected" /\ runs = 1
  /\ mounted /\ ~cameraStarted /\ ~isProcessing
  /\ completedSteps = <<TRUE, FALSE, FALSE>>
  /\ mutation = "idle" /\ payload = Undefined
  /\ wait = WaitIdle
  /\ Len(streams) = 1 /\ CameraStopped(currentStream, streams)

\* C7: completedSteps only moves [f,f,f] -> [t,f,f] -> [t,t,f] -> [t,t,t].
\* performLivenessCheck never clears completedSteps, so a run that follows
\* one that failed in the head-turn step starts from [t,t,f] and moves it
\* back to [t,f,f].
C7_StepsOnlyForward ==
  [][completedSteps' # completedSteps =>
       <<completedSteps, completedSteps'>> \in
         { <<(<<FALSE, FALSE, FALSE>>), (<<TRUE, FALSE, FALSE>>)>>,
           <<(<<TRUE, FALSE, FALSE>>), (<<TRUE, TRUE, FALSE>>)>>,
           <<(<<TRUE, TRUE, FALSE>>), (<<TRUE, TRUE, TRUE>>)>> }]_vars

\* C8: once the component is unmounted the run issues no further poll,
\* none of its wait's timers fires, it enters no further step and it
\* submits nothing. The cleanups only call stopCamera(), so the wait that
\* was running goes on polling.
C8_TeardownCancelsRun ==
  [][~mounted =>
       /\ wait' = wait
       /\ mutation' = "pending" => mutation = "pending"]_vars

\* the step on which the extractor of the running wait throws
ExtractorThrew ==
  \E d \in DetectMs : PollAnsweredWith([kind |-> "throw", v |-> 0], d)

\* C10: an extractor exception during a poll of the blink or head-turn
\* step is treated as a frame without a face: counters and flags stay, the
\* loop goes on to its sleep, the run is not aborted. Neither wait catches,
\* so the exception ends the run in performLivenessCheck's catch.
C10_ThrowIsNoFace ==
  [][ExtractorThrew =>
       /\ pc' = pc
       /\ outcome' = outcome
       /\ wait'.pc = "sleep"
       /\ wait'.blinks = wait.blinks /\ wait'.lastClosed = wait.lastClosed
       /\ wait'.left = wait.left /\ wait'.right = wait.right]_vars

\* C9: once the component is unmounted no stream is registered and every
\* stream getUserMedia handed out has had its tracks stopped exactly once,
\* however often stopCamera ran. Version A of the interval-driven
\* component opens its stream in initializeCamera, which registers it
\* nowhere, so the stopCamera() of its cleanup stops nothing.
C9_CancelLeavesCameraStopped ==
  ~mounted => currentStream = 0 /\ \A i \in 1..Len(streams) : streams[i] = 1

\* the step on which waitForHeadTurn returns false to performLivenessCheck
HeadTimedOut ==
  /\ pc = "head"
  /\ wait.pc = "sleep"
  /\ WaitWoken(wait).pc = "returned"
  /\ ~WaitReturnValue(WaitWoken(wait))
  /\ PollTimer

\* C11: the reason shown for a blink timeout is not the one shown for a
\* head-turn timeout, and neither is the one shown for a face that could
\* not be detected. Both messages contain 'detect', so the catch of
\* performLivenessCheck shows 'Could not detect face...' for either.
C11_TimeoutReasonsDistinct ==
  [][/\ BlinkTimedOut =>
          /\ toast' # LivenessToast(Error("Head turn not detected"))
          /\ toast' # "Could not detect face. Please ensure your face is clearly visible."
     /\ HeadTimedOut =>
          /\ toast' # LivenessToast(Error("Blink not detected"))
          /\ toast' # "Could not detect face. Please ensure your face is clearly visible."]_vars

\* the rejections of getUserMedia the camera module tells apart
AcquisitionFailures == {"NotAllowedError", "NotFoundError", "NotReadableError"}

\* C12: when getUserMedia is refused for permission denied, no camera or
\* a busy device, the reason shown differs between the three. The camera
\* module rethrows each as a plain Error, whose name is 'Error', so the
\* catch of startVerification shows its default message for all three.
C12_AcquisitionReasonsDistinct ==
  [][\A u \in AcquisitionFailures :
       (/\ cameraLib = "camera.ts"
        /\ pc = "camera"
        /\ outcome' = startCameraError(cameraLib, u).message)
       => /\ pc' = "idle"
          /\ \A v \in AcquisitionFailures \ {u} :
               toast' # CameraToast(startCameraError(cameraLib, v))]_vars

\* the step on which the capture of step 1 fails: captureFrame throws or
\* gives an empty image
CaptureFailed ==
  /\ mounted
  /\ \E c \in {"nocontext", "data:,"} : SettledWith(c)

\* C13: when the frame capture fails the run ends as a failure: no later
\* step is entered and nothing is handed to the mutation.
C13_CaptureFailureEndsRun ==
  [][CaptureFailed =>
       /\ pc' = "idle"
       /\ outcome' \in {"Could not get canvas context",
                        "Failed to capture frame from camera"}
       /\ wait' = WaitIdle
       /\ mutation' = mutation /\ payload' = payload
       /\ CameraStopped(currentStream', streams')]_vars

C13_Witness ==
  /\ pc = "idle" /\ outcome = "Failed to capture frame from camera" /\ runs = 1
  /\ toast = "Failed to capture image. Please try again."
  /\ mounted /\ ~cameraStarted /\ ~isProcessing
  /\ mutation = "idle" /\ payload = Undefined
  /\ completedSteps = <<FALSE, FALSE, FALSE>>

\* the evaluator holds what it holds initially
EvaluatorInitial(ears, blinks, heads) == ears = <<>> /\ blinks = 0 /\ heads = <<>>

\* the step on which the cleanup of the interval-driven component calls
\* the evaluator's resetLivenessDetection()
ResetCalled == variant = "B" /\ IvUnmount

\* a call of the detection interval answers on a frame without a face
IvNoFaceAnswer ==
  /\ \E f \in IvFrames : f.kind = "noface" /\ Detect(f)
  /\ IvDetected

\* C14: resetLivenessDetection, called in whatever state the evaluator is
\* in, leaves both histories empty, the blink count zero and no flag
\* reported; from there a frame without a face leaves the histories empty
\* and reports every flag false.
C14_ResetRestoresInitial ==
  [][/\ ResetCalled =>
          /\ EvaluatorInitial(eyeAspectRatios', blinkCounter', headPositions')
          /\ result' = getDefaultLivenessData
     /\ (EvaluatorInitial(eyeAspectRatios, blinkCounter, headPositions) /\ IvNoFaceAnswer) =>
          /\ EvaluatorInitial(eyeAspectRatios', blinkCounter', headPositions')
          /\ result' = getDefaultLivenessData]_vars

\* the reset came after a blink had been counted and reported, and a call
\* that was in flight has since answered on a frame without a face
C14_Witness ==
  /\ variant = "B" /\ ~mounted
  /\ livenessStatus.facePresent /\ livenessStatus.blinkDetected
  /\ ticks >= 4 /\ inflight = <<>>
  /\ EvaluatorInitial(eyeAspectRatios, blinkCounter, headPositions)
  /\ result = getDefaultLivenessData

\* C15: the body the client sends at the end of a successful run passes
\* the request validation of the biometric route. The schema requires
\* livenessData.brightness, a number from 0 to 100, which no client sends
\* (timestamp and the other keys are stripped), so the answer is 400.
C15_PayloadAccepted ==
  mutation # "idle" => biometricRequestSchema(RequestBody(payload))

\* the last run of the mounted component has ended in a failure: a step
\* or the camera failed, or the submission was answered with a rejection
\* or an error
RunFailed ==
  /\ mounted
  /\ pc = "idle"
  /\ \/ outcome \notin {"none", "running", "submitted"}
     \/ outcome = "submitted" /\ mutation \in {"rejected", "error"}

\* C16: after a run has ended in any failure a fresh run can be started:
\* cameraStarted is false and the camera is stopped. A run that got as far
\* as mutate never resets cameraStarted or stops the camera, so after a
\* submission that fails the start control stays disabled.
C16_FailureAllowsRetry ==
  RunFailed => ~cameraStarted /\ CameraStopped(currentStream, streams)

\* an access request for a link that has been used
UsedLinkAccessed(linkId) ==
  /\ getVerificationSessionByLinkId(linkId) # 0
  /\ sessions[getVerificationSessionByLinkId(linkId)].linkUsed
  /\ AccessLink(linkId)

\* C17 as stated: every access of a used link is answered 409. The expiry
\* is tested before the use, so a used link that has expired answers 410.
C17_UsedLinkAnswered409 ==
  [][\A linkId \in SessionIds :
       UsedLinkAccessed(linkId) => response'.status = 409]_vars

\* C17: linkUsed never goes back to false; an access succeeds only for a
\* link that was not used and marks it used, so at most one access per
\* link succeeds; every access of a used link is refused and changes
\* nothing, with 410 once the link has expired and with 409 before.
C17_LinkUsedOnce ==
  [][/\ \A i \in DOMAIN sessions : sessions[i].linkUsed => sessions'[i].linkUsed
     /\ \A linkId \in SessionIds :
          /\ (AccessLink(linkId) /\ response'.status = 200) =>
               LET id == getVerificationSessionByLinkId(linkId)
               IN id # 0 /\ ~sessions[id].linkUsed /\ sessions'[id].linkUsed
          /\ UsedLinkAccessed(linkId) =>
               LET id == getVerificationSessionByLinkId(linkId)
               IN /\ sessions' = sessions
                  /\ response'.status =
                       IF now > sessions[id].linkExpiry THEN 410 ELSE 409]_vars

\* a second access of a link within its lifetime has been answered 409
C17_Witness ==
  /\ response.route = "access" /\ response.status = 409
  /\ response.id \in DOMAIN sessions
  /\ sessions[response.id].linkUsed
  /\ now <= sessions[response.id].linkExpiry

\* C18: an ID upload for a session whose link was not accessed, and a
\* biometric submission for a session whose ID was not validated, are
\* answered 400 and leave every session as it was; in every reachable state
\* verificationComplete implies idValidated and idValidated implies
\* linkAccessed.
C18_StepOrderEnforced ==
  /\ [](\A i \in DOMAIN sessions :
          /\ sessions[i].verificationComplete => sessions[i].idValidated
          /\ sessions[i].idValidated => sessions[i].linkAccessed)
  /\ [][\A sessionId \in SessionIds :
          LET id == getVerificationSession(sessionId)
          IN /\ \A body \in UploadBodies :
                  (/\ UploadIdWith(sessionId, body)
                   /\ (id = 0 \/ ~sessions[id].linkAccessed)) =>
                    /\ response' = Response("upload-id", sessionId, 400)
                    /\ sessions' = sessions
                    /\ uploads' = uploads
             /\ \A body \in BiometricBodies :
                  (/\ BiometricWith(sessionId, body)
                   /\ (id = 0 \/ ~sessions[id].idValidated)) =>
                    /\ response' = Response("biometric", sessionId, 400)
                    /\ sessions' = sessions]_vars

\* an upload for a session whose link was never accessed has been refused
\* while another session went through the three steps in order
C18_Witness ==
  /\ response.route = "upload-id" /\ response.status = 400
  /\ response.id \in DOMAIN sessions
  /\ ~sessions[response.id].linkAccessed
  /\ \E i \in DOMAIN sessions : sessions[i].verificationComplete

\* C19: the run goes from the presence step to the blink step only on a
\* frame in which detectLiveness reported facePresent=true. Refuted:
\* performLivenessCheck stores what the call of step 1 returned and goes on
\* without reading it.
C19_BlinkOnlyAfterFacePresent ==
  [][(pc = "presence" /\ pc' = "blink") => result'.facePresent]_vars

\* C20: the frame of a submission is captured after the head-turn wait has
\* returned true, in step 3. Refuted: the submitted frame is the one
\* captureFrame returned in step 1, before the blink wait.
C20_SubmittedFrameIsFinal ==
  [][(pc = "head" /\ mutation' = "pending" /\ outcome' = "submitted") =>
       /\ payload'.faceImageData.run = runs
       /\ payload'.faceImageData.step = 3]_vars

\* C21: the livenessData of a submission made after all steps succeeded
\* has blinkDetected=true and headMovement=true. Refuted: the stepwise
\* component submits what detectLiveness returned in step 1, before either
\* wait was called.
C21_SubmittedFlagsAreFinal ==
  [][(pc = "head" /\ mutation' = "pending" /\ outcome' = "submitted") =>
       /\ payload'.livenessData.blinkDetected
       /\ payload'.livenessData.headMovement]_vars

\* C22: within one run of the interval-driven component at most one
\* submission is made. Refuted: a callback whose detectLiveness call was
\* under way when the interval was cleared completes the run a second time.
C22_OutcomeCreatedOnce ==
  Len(ivCalls) = 1 => submissions <= 1

\* C23: at most one detectLiveness call of the detection interval is in
\* flight. Refuted: the interval fires again while the call of the earlier
\* firing is still awaiting the extractor.
C23_OnePollInFlight ==
  Len(inflight) <= 1

\* C24: a run starts with the evaluator in its reset state. Refuted: the
\* stepwise component never calls resetLivenessDetection, so the second run
\* starts on the histories the first run left.
C24_RunStartsReset ==
  [][StartVerification =>
       EvaluatorInitial(eyeAspectRatios, blinkCounter, headPositions)]_vars

\* the frame of the previous detectLiveness call showed a face whose EAR
\* was below the closed-eye threshold
PreviousFrameClosed ==
  /\ result.facePresent
  /\ eyeAspectRatios # <<>>
  /\ eyeAspectRatios[Len(eyeAspectRatios)] < EYE_AR_THRESHOLD

\* C25: the evaluator's blink count goes up by one, and only on a closed
\* frame that follows a frame that was not closed; on a frame with a face
\* blinkDetected is reported exactly when the count has reached 2.
\* Refuted: the count goes up on every closed frame, so eyes held closed
\* over two frames are two blinks.
C25_EvaluatorCountsFallingEdges ==
  [][\A f \in Frames : detectLiveness(f) =>
       /\ blinkCounter' > blinkCounter =>
            /\ blinkCounter' = blinkCounter + 1
            /\ IsClose(f)
            /\ ~PreviousFrameClosed
       /\ result'.facePresent =>
            (result'.blinkDetected <=> blinkCounter' >= RequiredBlinks)]_vars

\* performLivenessCheck is under way
LivenessRunning == pc \in {"models", "settle", "presence", "blink", "head"}

\* performLivenessCheck has returned: the outcome was handed to the
\* mutation or a failure was reported
LivenessTerminal == pc = "idle" /\ outcome # "running"

\* C26: when every await of performLivenessCheck settles, a liveness run
\* that has started reaches a terminal state; a wait issues no poll once
\* its timeout has elapsed, so it ends at the loop test that follows the
\* poll under way at that moment.
C26_LivenessRunTerminates ==
  /\ [](wait.pc = "detect" => wait.elapsed < WAIT_TIMEOUT)
  /\ LivenessRunning ~> LivenessTerminal

\* a run whose blinks were made and whose head-turn wait ran into its
\* timeout has ended with the failure reported
C26_Witness ==
  /\ LivenessTerminal
  /\ outcome = "Head turn not detected"
  /\ completedSteps = <<TRUE, TRUE, FALSE>>
  /\ ~cameraStarted

\* C27: every live stream that startCamera obtained is the one
\* currentStream names, so at most one is live. Refuted: of two
\* startCamera calls that overlap the later arrival overwrites
\* currentStream and the earlier stream stays live with no reference.
C27_LiveStreamIsCurrent ==
  variant # "A" => \A i \in DOMAIN streams : streams[i] = 0 => i = currentStream

\* C28: in every state of a session verificationComplete, status =
\* 'complete' and a completedAt that is set go together. Refuted: an
\* upload-id request for a completed session sets the status back to
\* 'biometric' and leaves verificationComplete and completedAt.
C28_CompleteFieldsAgree ==
  \A i \in DOMAIN sessions :
    /\ sessions[i].verificationComplete <=> sessions[i].status = "complete"
    /\ sessions[i].verificationComplete <=> sessions[i].completedAt # "null"

\* the page sends a link-access request
AccessRequested == Len(accessRequests') > Len(accessRequests)

\* the link-access requests of the page as loaded that are not settled
AccessInFlight == {k \in DOMAIN accessRequests : accessRequests[k].load = pageLoads}

\* C29: the page sends a link-access request only when no restore check
\* is under way and no session is set, and has at most one such request
\* in flight. Refuted: on mount the link-access effect runs on the values
\* of the first render, in which isRestoringSession is still false, and
\* sends the request while the restore fetch is pending.
C29_AccessWaitsForRestore ==
  /\ [](Cardinality(AccessInFlight) <= 1)
  /\ [][AccessRequested => restoreFetch' = "none" /\ pageSessionId' = 0]_vars

\* the promise loadFaceApiModels returned to performLivenessCheck rejects
ModelLoadFailed == pc = "models" /\ pc' = "idle"

\* C30: after a failed load the loader is back in its not-loading state:
\* isLoading false, loadPromise null, modelsLoaded false. Refuted: the
\* rejection of Promise.all is not caught inside the loader, which keeps
\* isLoading = true and the rejected promise and hands that promise to
\* every later call.
C30_FailedLoadIsForgotten ==
  [][ModelLoadFailed => ~isLoading' /\ loadPromise' = "null" /\ ~modelsLoaded']_vars

====
